---- MODULE Spec2Model ----
(***************************************************************************)
(* Model of homework.py: a bot that polls the homework-review API, turns   *)
(* the newest homework record into a status message and sends it to a     *)
(* Telegram chat.                                                          *)
(*                                                                         *)
(* Python values are tagged records, so that values of different Python    *)
(* types can be compared.  A str(exception) or a message is a sequence of  *)
(* text fragments; the Russian literals of the source are transliterated   *)
(* (the original text is quoted in the comment next to each).              *)
(***************************************************************************)
EXTENDS Integers, Sequences, FiniteSets, TLC

\* ------------------------------------------------------------------------
\* Bounds of the model
\* ------------------------------------------------------------------------
\* largest number of get_api_answer calls explored in one execution
MaxCycles == 2
\* reading of the clock, int(time.time()), when main() starts
StartTime == 5000

\* ------------------------------------------------------------------------
\* Python values
\* ------------------------------------------------------------------------
None == [t |-> "null"]
S(s) == [t |-> "str", s |-> s]
N(n) == [t |-> "int", n |-> n]
L(l) == [t |-> "list", l |-> l]
D(d) == [t |-> "dict", d |-> d]
\* a local variable that has not been assigned yet
Unbound == [t |-> "unbound"]
EmptyDict == [k \in {} |-> None]

\* bool(v)
Truthy(v) ==
    CASE v.t = "null" -> FALSE
      [] v.t = "int"  -> v.n # 0
      [] v.t = "str"  -> v.s # ""
      [] v.t = "list" -> Len(v.l) > 0
      [] v.t = "dict" -> DOMAIN v.d # {}

\* str(v), as used by str.format and f-strings (None, int and str values)
Str(v) ==
    CASE v.t = "null" -> "None"
      [] v.t = "int"  -> ToString(v.n)
      [] v.t = "str"  -> v.s

\* type(v).__name__
TypeName(v) == IF v.t = "null" THEN "NoneType" ELSE v.t

\* isinstance(v, dict) and key in v
IsMapping(v) == v.t = "dict"
HasKey(v, key) == IsMapping(v) /\ key \in DOMAIN v.d

\* mapping.get(key): the value, or None when the key is absent
Get(m, key) == IF key \in DOMAIN m.d THEN m.d[key] ELSE None

\* ------------------------------------------------------------------------
\* Exceptions and results of a call
\* ------------------------------------------------------------------------
Exc(kind, text) == [kind |-> kind, text |-> text]
NoError == [kind |-> "none", text |-> <<>>]
Ok(v) == [ok |-> TRUE, value |-> v]
Raise(e) == [ok |-> FALSE, exc |-> e]
\* str(KeyError(key)) is the repr of the key
KeyErrorOf(key) == Exc("KeyError", <<"'", key, "'">>)

\* ------------------------------------------------------------------------
\* str.format: a template is a sequence of literals and named fields
\* ------------------------------------------------------------------------
Lit(s) == [lit |-> s]
Fld(name) == [fld |-> name]
IsFld(item) == "fld" \in DOMAIN item

\* template.format(*args, **kwargs): a named field is looked up in kwargs
\* only, positional arguments never fill it; a missing name is a KeyError
Format(template, kwargs) ==
    LET missing == {i \in DOMAIN template :
                       IsFld(template[i]) /\ template[i].fld \notin DOMAIN kwargs}
        first == CHOOSE i \in missing : \A j \in missing : i <= j
    IN IF missing # {}
       THEN [ok |-> FALSE, key |-> template[first].fld]
       ELSE [ok |-> TRUE,
             text |-> [i \in DOMAIN template |->
                         IF IsFld(template[i]) THEN kwargs[template[i].fld]
                         ELSE template[i].lit]]

\* no keyword arguments (the call passes positional arguments only)
NoKwargs == [k \in {} |-> ""]

\* raise kind(template.format(...)): the format is evaluated first, so its
\* KeyError replaces the exception that was about to be raised
RaiseFormatted(kind, formatted) ==
    IF formatted.ok THEN Exc(kind, formatted.text) ELSE KeyErrorOf(formatted.key)

\* ------------------------------------------------------------------------
\* Module constants
\* ------------------------------------------------------------------------
CONNECTION_ERROR ==
    <<Fld("error"), Lit(", "), Fld("url"), Lit(", "), Fld("headers"), Lit(", "), Fld("params")>>
SERVICE_REJECTION == <<Fld("code")>>
WRONG_ENDPOINT ==
    <<Fld("response_status"), Lit(", "), Fld("url"), Lit(", "), Fld("headers"), Lit(", "),
      Fld("params")>>
WRONG_HOMEWORK_STATUS == <<Fld("homework_status")>>
\* 'Неверный тип данных {type}, вместо "dict"'
WRONG_DATA_TYPE == <<Lit("Nevernyj tip dannyh "), Fld("type"), Lit(", vmesto \"dict\"")>>
\* 'Неверный тип данных {type}, вместо "list"'
WRONG_DATA_TYPE_LIST == <<Lit("Nevernyj tip dannyh "), Fld("type"), Lit(", vmesto \"list\"")>>
FAILURE_TO_SEND_MESSAGE == <<Fld("error"), Lit(", "), Fld("message")>>
\* 'Сообщение {message} отправлено'
MESSAGE_IS_SENT == <<Lit("Soobshchenie "), Fld("message"), Lit(" otpravleno")>>
\* 'Формат не json {error}'
FORMAT_NOT_JSON == <<Lit("Format ne json "), Fld("error")>>
\* 'Список пустой'
LIST_IS_EMPTY == <<Lit("Spisok pustoj")>>
\* the message written with a named field, like the other templates
NO_HOMEWORK_NAME_KEYWithField ==
    <<Lit("V otvete API domashki otsutsvuet klyuch "), Fld("homework_name")>>

\* 'В ответе API домашки отсутсвует ключ _homework_name_'
NO_HOMEWORK_NAME_KEY == <<Lit("V otvete API domashki otsutsvuet klyuch _homework_name_")>>
\* ' В ответе API домашки отсутствует ключ _homeworks'
NO_HOMEWORKS_KEY == <<Lit(" V otvete API domashki otsutstvuet klyuch _homeworks")>>

\* the text of a template that is used without .format: braces stay as written
Unformatted(template) ==
    [i \in DOMAIN template |->
        IF IsFld(template[i]) THEN "{" \o template[i].fld \o "}" ELSE template[i].lit]

RETRY_PERIOD == 600
ENDPOINT == S("https://practicum.yandex.ru/api/user_api/homework_statuses/")

\* the table with the texts of approved and rejected exchanged
HOMEWORK_VERDICTSSwapped ==
    [approved  |-> "Rabota proverena: u rev'yuera est' zamechaniya.",
     reviewing |-> "Rabota vzyata na proverku rev'yuerom.",
     rejected  |-> "Rabota proverena: rev'yueru vsyo ponravilos'. Ura!"]

\* 'Работа проверена: ревьюеру всё понравилось. Ура!'
\* 'Работа взята на проверку ревьюером.'
\* 'Работа проверена: у ревьюера есть замечания.'
HOMEWORK_VERDICTS ==
    [approved  |-> "Rabota proverena: rev'yueru vsyo ponravilos'. Ura!",
     reviewing |-> "Rabota vzyata na proverku rev'yuerom.",
     rejected  |-> "Rabota proverena: u rev'yuera est' zamechaniya."]

\* key in HOMEWORK_VERDICTS
InVerdicts(v) == v.t = "str" /\ v.s \in DOMAIN HOMEWORK_VERDICTS

\* ------------------------------------------------------------------------
\* check_tokens
\* ------------------------------------------------------------------------
\* the values checked, in the order of the for loop
TokenKeys(env) == <<env.PRACTICUM_TOKEN, env.TELEGRAM_TOKEN, env.TELEGRAM_CHAT_ID, ENDPOINT>>

\* the check without the `if not key` branch: only None is refused
check_tokensNoneOnly(env) ==
    \A i \in DOMAIN TokenKeys(env) : TokenKeys(env)[i] # None

\* False as soon as one value is None ("missing") or falsy ("empty")
check_tokens(env) ==
    \A i \in DOMAIN TokenKeys(env) :
        /\ TokenKeys(env)[i] # None
        /\ Truthy(TokenKeys(env)[i])

\* ------------------------------------------------------------------------
\* get_api_answer
\* ------------------------------------------------------------------------
\* the cursor passed on as it is, without the fallback to the clock
TimestampNoFallback(current_timestamp, now) == current_timestamp

\* timestamp = current_timestamp or int(time.time())
Timestamp(current_timestamp, now) ==
    IF Truthy(current_timestamp) THEN current_timestamp ELSE N(now)

\* the keyword arguments of requests.get, as str.format renders them
AllParams(timestamp) ==
    [url     |-> Str(ENDPOINT),
     headers |-> "{'Authorization': 'OAuth ...'}",
     params  |-> "{'from_date': " \o Str(timestamp) \o "}"]

\* what requests.get and response.json() can produce for one request
Replies(bodies) ==
    {[kind |-> "RequestException"], [kind |-> "not_json"]}
    \cup {[kind |-> "status", code |-> c] : c \in {401, 500}}
    \cup {[kind |-> "json", body |-> b] : b \in bodies}

get_api_answer(current_timestamp, now, reply) ==
    LET timestamp == Timestamp(current_timestamp, now)
        all_params == AllParams(timestamp)
    IN CASE reply.kind = "RequestException" ->
              Raise(RaiseFormatted("TelegramError",
                    Format(CONNECTION_ERROR,
                           [error |-> "RequestException", url |-> all_params.url,
                            headers |-> all_params.headers, params |-> all_params.params])))
         [] reply.kind = "status" ->
              Raise(RaiseFormatted("EndpointError",
                    Format(WRONG_ENDPOINT,
                           [response_status |-> ToString(reply.code), url |-> all_params.url,
                            headers |-> all_params.headers, params |-> all_params.params])))
         [] reply.kind = "not_json" ->
              \* FORMAT_NOT_JSON.format(error): the argument is positional
              Raise(RaiseFormatted("ResponseFormatError", Format(FORMAT_NOT_JSON, NoKwargs)))
         [] reply.kind = "json" -> Ok(reply.body)

\* ------------------------------------------------------------------------
\* check_response
\* ------------------------------------------------------------------------
\* the rejection test applied only when there is no homework data
ContainsCodeWithoutHomeworks(response) ==
    CASE response.t = "dict" ->
            "code" \in DOMAIN response.d /\ "homeworks" \notin DOMAIN response.d
      [] response.t = "list" -> \E i \in DOMAIN response.l : response.l[i] = S("code")

\* 'code' in response
ContainsCode(response) ==
    CASE response.t = "dict" -> "code" \in DOMAIN response.d
      [] response.t = "list" -> \E i \in DOMAIN response.l : response.l[i] = S("code")

\* value[-1] in place of value[0]
LastItem(value) ==
    CASE value.t = "list" -> Ok(value.l[Len(value.l)])
      [] value.t = "str"  -> Ok(value)
      [] value.t = "dict" -> Raise(Exc("KeyError", <<"-1">>))
      [] value.t = "int"  ->
            Raise(Exc("TypeError", <<"'int' object is not subscriptable">>))

\* value[0] with a shape check of the element: only mappings are returned
FirstItemMappingOnly(value) ==
    CASE value.t = "list" ->
            IF IsMapping(value.l[1]) THEN Ok(value.l[1])
            ELSE Raise(Exc("DataTypeError", <<"Nevernyj tip dannyh">>))
      [] value.t = "str"  -> Raise(Exc("DataTypeError", <<"Nevernyj tip dannyh">>))
      [] value.t = "dict" -> Raise(Exc("KeyError", <<"0">>))
      [] value.t = "int"  ->
            Raise(Exc("TypeError", <<"'int' object is not subscriptable">>))

\* value[0]
FirstItem(value) ==
    CASE value.t = "list" -> Ok(value.l[1])
      [] value.t = "str"  -> Ok(value)      \* one-character strings only
      \* the keys of a decoded JSON object are strings, never 0
      [] value.t = "dict" -> Raise(Exc("KeyError", <<"0">>))
      [] value.t = "int"  ->
            Raise(Exc("TypeError", <<"'int' object is not subscriptable">>))

check_response(response) ==
    IF response.t \in {"null", "int"}
    THEN Raise(Exc("TypeError", <<"argument of type '", TypeName(response), "' is not iterable">>))
    ELSE IF ContainsCode(response)
    THEN IF response.t # "dict"
         THEN Raise(Exc("AttributeError", <<"'list' object has no attribute 'get'">>))
         ELSE Raise(RaiseFormatted("ServiceError",
                    Format(SERVICE_REJECTION, [code |-> Str(Get(response, "code"))])))
    ELSE IF response.t # "dict"
    THEN Raise(Exc("TypeError", <<"list indices must be integers or slices, not str">>))
    ELSE IF "homeworks" \notin DOMAIN response.d
    THEN Raise(KeyErrorOf("homeworks"))
    ELSE IF Truthy(response.d["homeworks"])
    THEN FirstItem(response.d["homeworks"])
    ELSE IF "homeworks" \notin DOMAIN response.d
    THEN Raise(Exc("ResponseContentError", Unformatted(NO_HOMEWORKS_KEY)))
    ELSE IF Get(response, "homework").t # "list"
    THEN Raise(Exc("TypeError", Unformatted(WRONG_DATA_TYPE_LIST)))
    ELSE Raise(Exc("IndexError", Unformatted(LIST_IS_EMPTY)))

\* ------------------------------------------------------------------------
\* parse_status
\* ------------------------------------------------------------------------
\* 'Изменился статус проверки работы "{homework_name}". {verdict}'
StatusMessage(homework_name, verdict) ==
    <<"Izmenilsya status proverki raboty \"", Str(homework_name), "\". ", verdict>>

parse_status(homework) ==
    IF homework.t # "dict"
    THEN Raise(RaiseFormatted("DataTypeError", Format(WRONG_DATA_TYPE, NoKwargs)))
    ELSE LET homework_name == Get(homework, "homework_name")
             homework_status == Get(homework, "status")
         IN IF ~InVerdicts(homework_status)
            THEN Raise(RaiseFormatted("NameError", Format(WRONG_HOMEWORK_STATUS, NoKwargs)))
            ELSE IF homework_name = None
            THEN Raise(RaiseFormatted("ResponseContentError",
                                      Format(NO_HOMEWORK_NAME_KEY, NoKwargs)))
            ELSE Ok(StatusMessage(homework_name, HOMEWORK_VERDICTS[homework_status.s]))

\* ------------------------------------------------------------------------
\* send_message
\* ------------------------------------------------------------------------
\* the fragments of a text, joined into one string
RECURSIVE Join(_)
Join(text) == IF text = <<>> THEN "" ELSE Head(text) \o Join(Tail(text))

\* delivered: whether bot.send_message returns (TRUE) or raises (FALSE)
send_message(message, delivered) ==
    IF delivered
    THEN Ok(None)
    ELSE Raise(RaiseFormatted("MessageSendingError",
               Format(FAILURE_TO_SEND_MESSAGE,
                      [error |-> "TelegramError", message |-> Join(message)])))

\* ------------------------------------------------------------------------
\* Messages built by main
\* ------------------------------------------------------------------------
\* 'Статус работы не изменился'
StatusNotChanged == <<"Status raboty ne izmenilsya">>
\* f'Сбой в работе программы:{error}'
FailureMessage(error) == <<"Sboj v rabote programmy:">> \o error.text

\* ------------------------------------------------------------------------
\* Inputs: environments and response bodies
\* ------------------------------------------------------------------------
\* os.getenv gives None for an unset variable and a string otherwise
EnvValues == {None, S(""), S("secret")}
Environments ==
    [PRACTICUM_TOKEN : EnvValues, TELEGRAM_TOKEN : EnvValues, TELEGRAM_CHAT_ID : EnvValues]

\* a dict with the keys of `present`, taken from `full`
Restrict(full, present) == [k \in present |-> full[k]]

NameValues == {None, S("hw1")}
StatusValues == {None, S("approved"), S("reviewing"), S("rejected"), S("unknown")}
\* homework records: each of the two keys absent, null or set
HomeworkRecords ==
    {D(Restrict([homework_name |-> n, status |-> st], present)) :
        n \in NameValues, st \in StatusValues,
        present \in SUBSET {"homework_name", "status"}}
OlderRecord == D([homework_name |-> S("hw0"), status |-> S("rejected")])

\* values of the `homeworks` key: sequences of records and non-sequences
HomeworksValues ==
    {L(<<>>), L(<<S("x")>>), None, N(0), N(7), S(""), S("x"), D(EmptyDict),
     D([id |-> N(1)])}
    \cup {L(<<r>>) : r \in HomeworkRecords}
    \cup {L(<<r, OlderRecord>>) : r \in HomeworkRecords}
CodeValues == {S("not_authenticated"), N(404)}
DateValues == {N(0), N(1000)}

\* decoded JSON bodies that are mappings
Payloads ==
    {D(Restrict([code |-> c, homeworks |-> h, homework |-> L(<<>>), current_date |-> d],
                present)) :
        c \in CodeValues, h \in HomeworksValues, d \in DateValues,
        present \in SUBSET {"code", "homeworks", "homework", "current_date"}}
\* decoded JSON bodies that are not mappings
OtherBodies == {None, N(1), L(<<>>), L(<<S("code")>>)}
Bodies == Payloads \cup OtherBodies

\* ------------------------------------------------------------------------
\* State of the process
\* ------------------------------------------------------------------------
VARIABLES
    env,                \* PRACTICUM_TOKEN, TELEGRAM_TOKEN, TELEGRAM_CHAT_ID
    clock,              \* int(time.time())
    pc,                 \* position of main()
    current_timestamp,  \* the cursor, a local of main()
    response,           \* local of main()
    homework,           \* local of main()
    message,            \* local of main()
    error,              \* the exception being handled or propagating
    exit,               \* the exception that ended the process, if any
    cycle,              \* number of get_api_answer calls so far
    from_date,          \* params['from_date'] of the latest request
    last_reply,         \* what the HTTP layer answered to the latest request
    cursor0,            \* the cursor when the current cycle began
    sent,               \* send_message calls of the current cycle
    raised,             \* exceptions raised in the current cycle, with the step
    sleeps              \* time.sleep calls since the latest get_api_answer call

vars == <<env, clock, pc, current_timestamp, response, homework, message, error, exit,
          cycle, from_date, last_reply, cursor0, sent, raised, sleeps>>

Init ==
    /\ env \in Environments
    /\ clock = StartTime
    /\ pc = "start"
    /\ current_timestamp = Unbound
    /\ response = Unbound
    /\ homework = Unbound
    /\ message = Unbound
    /\ error = NoError
    /\ exit = "none"
    /\ cycle = 0
    /\ from_date = Unbound
    /\ last_reply = [kind |-> "none"]
    /\ cursor0 = Unbound
    /\ sent = <<>>
    /\ raised = <<>>
    /\ sleeps = 0

\* main(), lines 182-185: the startup check and the initial cursor
Startup ==
    /\ pc = "start"
    /\ IF ~check_tokens(env)
       THEN /\ pc' = "terminated"
            /\ exit' = "GlobalsError"
            /\ UNCHANGED current_timestamp
       ELSE /\ pc' = "fetch"
            /\ current_timestamp' = N(clock)
            /\ UNCHANGED exit
    /\ UNCHANGED <<env, last_reply, clock, response, homework, message, error, cycle, from_date,
                   cursor0, sent, raised, sleeps>>

\* line 189: response = get_api_answer(current_timestamp)
GetApiAnswer ==
    /\ pc = "fetch"
    /\ cycle < MaxCycles
    /\ \E reply \in Replies(Bodies) :
         LET result == get_api_answer(current_timestamp, clock, reply)
         IN /\ from_date' = Timestamp(current_timestamp, clock)
            /\ last_reply' = reply
            /\ IF result.ok
               THEN /\ response' = result.value
                    /\ pc' = "validate"
                    /\ raised' = <<>>
                    /\ UNCHANGED error
               ELSE /\ error' = result.exc
                    /\ pc' = "except"
                    /\ raised' = <<[at |-> "fetch", exc |-> result.exc]>>
                    /\ UNCHANGED response
    /\ cycle' = cycle + 1
    /\ cursor0' = current_timestamp
    /\ sent' = <<>>
    /\ sleeps' = 0
    /\ UNCHANGED <<env, clock, current_timestamp, homework, message, exit>>

\* line 190: homework = check_response(response)
CheckResponse ==
    /\ pc = "validate"
    /\ LET result == check_response(response)
       IN IF result.ok
          THEN /\ homework' = result.value
               /\ pc' = "format"
               /\ UNCHANGED <<error, raised>>
          ELSE /\ error' = result.exc
               /\ pc' = "except"
               /\ raised' = Append(raised, [at |-> "validate", exc |-> result.exc])
               /\ UNCHANGED homework
    /\ UNCHANGED <<env, last_reply, clock, current_timestamp, response, message, exit, cycle,
                   from_date, cursor0, sent, sleeps>>

\* line 191: message = parse_status(homework)
ParseStatus ==
    /\ pc = "format"
    /\ LET result == parse_status(homework)
       IN IF result.ok
          THEN /\ message' = result.value
               /\ pc' = "notify"
               /\ UNCHANGED <<error, raised>>
          ELSE /\ error' = result.exc
               /\ pc' = "except"
               /\ raised' = Append(raised, [at |-> "format", exc |-> result.exc])
               /\ UNCHANGED message
    /\ UNCHANGED <<env, last_reply, clock, current_timestamp, response, homework, exit, cycle,
                   from_date, cursor0, sent, sleeps>>

\* the update written with a default: response.get('current_date', cursor)
NextCursorKeepsOld(resp, cursor) ==
    IF HasKey(resp, "current_date") THEN resp.d["current_date"] ELSE cursor

\* line 194: current_timestamp = response.get('current_date')
NextCursor(resp, cursor) == Get(resp, "current_date")

\* the cursor update placed before the send_message call
SendMessageAfterCursorUpdate ==
    /\ pc = "notify"
    /\ current_timestamp' = NextCursor(response, current_timestamp)
    /\ \E delivered \in BOOLEAN :
         LET result == send_message(message, delivered)
         IN /\ sent' = Append(sent, [text |-> message, ok |-> delivered])
            /\ IF result.ok
               THEN /\ pc' = "finally"
                    /\ UNCHANGED <<error, raised>>
               ELSE /\ error' = result.exc
                    /\ pc' = "except"
                    /\ raised' = Append(raised, [at |-> "notify", exc |-> result.exc])
    /\ UNCHANGED <<env, last_reply, clock, response, homework, message, exit, cycle,
                   from_date, cursor0, sleeps>>

\* lines 192-194: send_message(bot, message), then the cursor update
SendMessage ==
    /\ pc = "notify"
    /\ \E delivered \in BOOLEAN :
         LET result == send_message(message, delivered)
         IN /\ sent' = Append(sent, [text |-> message, ok |-> delivered])
            /\ IF result.ok
               THEN /\ current_timestamp' = NextCursor(response, current_timestamp)
                    /\ pc' = "finally"
                    /\ UNCHANGED <<error, raised>>
               ELSE /\ error' = result.exc
                    /\ pc' = "except"
                    /\ raised' = Append(raised, [at |-> "notify", exc |-> result.exc])
                    /\ UNCHANGED current_timestamp
    /\ UNCHANGED <<env, last_reply, clock, response, homework, message, exit, cycle, from_date,
                   cursor0, sleeps>>

\* the body of an except clause: build the message and send it; an exception
\* raised here is not caught by the sibling clauses and propagates
Handle(text) ==
    /\ message' = text
    /\ \E delivered \in BOOLEAN :
         LET result == send_message(text, delivered)
         IN /\ sent' = Append(sent, [text |-> text, ok |-> delivered])
            /\ IF result.ok
               THEN /\ error' = NoError
                    /\ UNCHANGED raised
               ELSE /\ error' = result.exc
                    /\ raised' = Append(raised, [at |-> "handler", exc |-> result.exc])
    /\ pc' = "finally"
    /\ UNCHANGED <<env, last_reply, clock, current_timestamp, response, homework, exit, cycle,
                   from_date, cursor0, sleeps>>

\* the benign outcome only logged, with no send_message call
ExceptIndexErrorSilent ==
    /\ pc = "except"
    /\ error.kind = "IndexError"
    /\ message' = StatusNotChanged
    /\ error' = NoError
    /\ pc' = "finally"
    /\ UNCHANGED <<env, last_reply, clock, current_timestamp, response, homework, exit,
                   cycle, from_date, cursor0, sent, raised, sleeps>>

\* lines 195-198: except IndexError
ExceptIndexError ==
    /\ pc = "except"
    /\ error.kind = "IndexError"
    /\ Handle(StatusNotChanged)

\* lines 199-201: except Exception as error
ExceptException ==
    /\ pc = "except"
    /\ error.kind # "IndexError"
    /\ Handle(FailureMessage(error))

\* the sleep placed after the try statement instead of in its finally
\* clause: a propagating exception leaves main() without sleeping
SleepAfterTry ==
    /\ pc = "finally"
    /\ IF error # NoError
       THEN /\ pc' = "terminated"
            /\ exit' = error.kind
            /\ UNCHANGED <<clock, sleeps>>
       ELSE /\ pc' = "log"
            /\ clock' = clock + RETRY_PERIOD
            /\ sleeps' = sleeps + 1
            /\ UNCHANGED exit
    /\ UNCHANGED <<env, last_reply, current_timestamp, response, homework, message, error, cycle,
                   from_date, cursor0, sent, raised>>

\* lines 202-203: finally: time.sleep(RETRY_PERIOD); a propagating exception
\* then leaves main()
Finally ==
    /\ pc = "finally"
    /\ clock' = clock + RETRY_PERIOD
    /\ sleeps' = sleeps + 1
    /\ IF error # NoError
       THEN /\ pc' = "terminated"
            /\ exit' = error.kind
       ELSE /\ pc' = "log"
            /\ UNCHANGED exit
    /\ UNCHANGED <<env, last_reply, current_timestamp, response, homework, message, error, cycle,
                   from_date, cursor0, sent, raised>>

\* line 204: logging.info(MESSAGE_IS_SENT.format(message)), outside the try;
\* the argument is positional
LogMessageIsSent ==
    /\ pc = "log"
    /\ LET formatted == Format(MESSAGE_IS_SENT, NoKwargs)
       IN IF formatted.ok
          THEN /\ pc' = "fetch"
               /\ UNCHANGED <<error, exit>>
          ELSE /\ pc' = "terminated"
               /\ error' = KeyErrorOf(formatted.key)
               /\ exit' = "KeyError"
    /\ UNCHANGED <<env, last_reply, clock, current_timestamp, response, homework, message, cycle,
                   from_date, cursor0, sent, raised, sleeps>>

Next ==
    \/ Startup
    \/ GetApiAnswer
    \/ CheckResponse
    \/ ParseStatus
    \/ SendMessage
    \/ ExceptIndexError
    \/ ExceptException
    \/ Finally
    \/ LogMessageIsSent

Spec == Init /\ [][Next]_vars

\* ------------------------------------------------------------------------
\* get_api_answer on its own: one call, for every cursor main() can hold
\* ------------------------------------------------------------------------
\* an integer timestamp, zero, or None (line 194 with no `current_date`)
Cursors == {None, N(0), N(1000), N(StartTime)}

FetchInit ==
    /\ env = [PRACTICUM_TOKEN |-> S("secret"), TELEGRAM_TOKEN |-> S("secret"),
              TELEGRAM_CHAT_ID |-> S("secret")]
    /\ clock \in {StartTime, StartTime + RETRY_PERIOD}
    /\ pc = "fetch"
    /\ current_timestamp \in Cursors
    /\ response = Unbound
    /\ homework = Unbound
    /\ message = Unbound
    /\ error = NoError
    /\ exit = "none"
    /\ cycle = 0
    /\ from_date = Unbound
    /\ last_reply = [kind |-> "none"]
    /\ cursor0 = Unbound
    /\ sent = <<>>
    /\ raised = <<>>
    /\ sleeps = 0

FetchSpec == FetchInit /\ [][GetApiAnswer]_vars

\* ------------------------------------------------------------------------
\* Vocabulary of the properties
\* ------------------------------------------------------------------------
Range(seq) == {seq[i] : i \in DOMAIN seq}
\* main() passed the startup check and entered the while loop
LoopEntered == pc # "start" /\ exit # "GlobalsError"
\* the current cycle is over: its finally clause is reached or behind
CycleEnding == cycle > 0 /\ pc \in {"finally", "log", "fetch", "terminated"}
CycleEnded == cycle > 0 /\ pc \in {"log", "fetch", "terminated"}
\* the fetch of the current cycle returned the body now held in `response`
Fetched == cycle > 0 /\ (raised = <<>> \/ raised[1].at # "fetch")
\* ... and check_response has been applied to it
Validated == Fetched /\ pc # "validate"
\* the exception raised by the given step of the current cycle, if any
RaisedAt(step) == {raised[i].exc : i \in {j \in DOMAIN raised : raised[j].at = step}}
GenericPrefix == "Sboj v rabote programmy:"

\* ------------------------------------------------------------------------
\* C1 -- once the loop is entered, the process never terminates: every
\* cycle is followed by another one, whatever its outcomes were.
\* ------------------------------------------------------------------------
C1_LoopNeverExits == LoopEntered => pc # "terminated"

\* ------------------------------------------------------------------------
\* C2 -- in a cycle whose fetch returns a payload without `code` and with
\* `homeworks` equal to the empty list, the only message handed to
\* send_message is the fixed status-unchanged message, never the generic
\* failure message, and no exception escapes the cycle.
\* ------------------------------------------------------------------------
EmptyHomeworks(v) ==
    /\ IsMapping(v)
    /\ ~HasKey(v, "code")
    /\ HasKey(v, "homeworks")
    /\ v.d["homeworks"] = L(<<>>)

C2_EmptyListIsBenign ==
    (Validated /\ EmptyHomeworks(response)) =>
        /\ \A i \in DOMAIN sent :
              /\ sent[i].text = StatusNotChanged
              /\ Head(sent[i].text) # GenericPrefix
        /\ CycleEnding => Len(sent) >= 1
        /\ exit = "none"

\* ------------------------------------------------------------------------
\* C3 -- a failed send_message is never followed by another send_message
\* in the same cycle: every cycle has at most one notify attempt.
\* ------------------------------------------------------------------------
C3_NoNotifyAfterNotifyFailure ==
    /\ Len(sent) <= 1
    /\ \A i \in DOMAIN sent : ~sent[i].ok => i = Len(sent)

\* ------------------------------------------------------------------------
\* C4 -- the cursor is an integer timestamp in every state of the loop;
\* after a cycle that succeeded it is the payload's `current_date` when that
\* field is present, and the value it had before the cycle when absent.
\* ------------------------------------------------------------------------
C4_CursorIntegerKeptWhenAbsent ==
    LoopEntered =>
        /\ current_timestamp.t = "int"
        /\ (CycleEnding /\ raised = <<>>) =>
              current_timestamp = IF HasKey(response, "current_date")
                                  THEN response.d["current_date"]
                                  ELSE cursor0

\* C4 as amended -- the cursor is an integer timestamp or None; it changes
\* only at the end of a cycle in which fetch, validation, formatting and the
\* notification all succeeded, and then it becomes the payload's
\* `current_date` when present and None when absent.
C4_CursorReplacedOrNone ==
    LoopEntered =>
        /\ current_timestamp.t \in {"int", "null"}
        /\ cycle = 0 => current_timestamp = N(StartTime)
        /\ (cycle > 0 /\ ~CycleEnding) => current_timestamp = cursor0
        /\ (CycleEnding /\ raised # <<>>) => current_timestamp = cursor0
        /\ (CycleEnding /\ raised = <<>>) =>
              /\ HasKey(response, "current_date") =>
                    current_timestamp = response.d["current_date"]
              /\ ~HasKey(response, "current_date") => current_timestamp = None

\* a cycle succeeded on a payload without `current_date`: the cursor is None
C4_Witness ==
    /\ CycleEnding
    /\ raised = <<>>
    /\ IsMapping(response)
    /\ ~HasKey(response, "current_date")
    /\ cursor0 = N(StartTime)
    /\ current_timestamp = None

\* ------------------------------------------------------------------------
\* C5 -- time.sleep runs exactly once in every cycle, on every path, also
\* when an exception escapes a handler: no sleep before the finally clause,
\* one sleep behind it, hence one sleep between consecutive fetches and
\* one sleep before the process ends.
\* ------------------------------------------------------------------------
C5_SleepOncePerCycle ==
    /\ pc \in {"validate", "format", "notify", "except", "finally"} => sleeps = 0
    /\ CycleEnded => sleeps = 1
    /\ cycle = 0 => sleeps = 0
    /\ clock = StartTime + RETRY_PERIOD * (IF CycleEnded THEN cycle ELSE cycle - 1)
          \/ cycle = 0

\* an exception escaped an except clause and ended main(): it slept first
C5_Witness ==
    /\ pc = "terminated"
    /\ exit = "MessageSendingError"
    /\ Len(sent) >= 1
    /\ sleeps = 1
    /\ clock = StartTime + RETRY_PERIOD

\* ------------------------------------------------------------------------
\* C6 -- if a token or the chat id is None or empty, main() ends before the
\* loop: no fetch, no send_message, no sleep; otherwise the loop is entered.
\* ------------------------------------------------------------------------
AnyMissing ==
    \E k \in DOMAIN env : env[k] = None \/ env[k] = S("")

C6_StartupGate ==
    /\ AnyMissing =>
          /\ pc \in {"start", "terminated"}
          /\ pc = "terminated" => exit = "GlobalsError"
          /\ cycle = 0 /\ from_date = Unbound
          /\ sent = <<>>
          /\ sleeps = 0 /\ clock = StartTime
    /\ ~AnyMissing =>
          /\ exit # "GlobalsError"
          /\ pc = "terminated" => cycle > 0

\* the chat id is the empty string: the process ended at the startup check
C6_Witness ==
    /\ env = [PRACTICUM_TOKEN |-> S("secret"), TELEGRAM_TOKEN |-> S("secret"),
              TELEGRAM_CHAT_ID |-> S("")]
    /\ pc = "terminated"
    /\ exit = "GlobalsError"
    /\ cycle = 0

\* ------------------------------------------------------------------------
\* C7 -- a cycle whose payload has no `code`, a non-empty `homeworks` list
\* whose first record has a recognized status and a non-null name, and a
\* `current_date` d, and whose notification is delivered: exactly one
\* message is sent, it announces that first record (its name and the verdict
\* text of its status), and the cycle ends with the cursor equal to d.
\* ------------------------------------------------------------------------
\* the first element of the payload's homeworks list
FirstRecord(v) == v.d["homeworks"].l[1]
GoodPayload(v) ==
    /\ IsMapping(v)
    /\ ~HasKey(v, "code")
    /\ HasKey(v, "homeworks")
    /\ v.d["homeworks"].t = "list"
    /\ Len(v.d["homeworks"].l) > 0
    /\ IsMapping(FirstRecord(v))
    /\ HasKey(FirstRecord(v), "status")
    /\ FirstRecord(v).d["status"] \in {S("approved"), S("reviewing"), S("rejected")}
    /\ HasKey(FirstRecord(v), "homework_name")
    /\ FirstRecord(v).d["homework_name"] # None
    /\ HasKey(v, "current_date")

C7_SuccessfulCycle ==
    (CycleEnding /\ Fetched /\ GoodPayload(response) /\ sent # <<>> /\ sent[1].ok) =>
        /\ Len(sent) = 1
        /\ Len(sent[1].text) > 0
        /\ FirstRecord(response).d["homework_name"].s \in Range(sent[1].text)
        /\ HOMEWORK_VERDICTS[FirstRecord(response).d["status"].s] \in Range(sent[1].text)
        /\ Head(sent[1].text) # GenericPrefix
        /\ sent[1].text # StatusNotChanged
        /\ current_timestamp = response.d["current_date"]

\* scenario 1 of the specification, with an older record behind the first
C7_Witness ==
    /\ CycleEnded
    /\ response = D([homeworks |-> L(<<D([homework_name |-> S("hw1"),
                                          status |-> S("approved")]), OlderRecord>>),
                     current_date |-> N(1000)])
    /\ Len(sent) = 1
    /\ sent[1].ok
    /\ "hw1" \in Range(sent[1].text)
    /\ current_timestamp = N(1000)

\* ------------------------------------------------------------------------
\* C8 -- every failure of the fetch, validate or format step other than the
\* empty-list outcome is caught and reported by one notify attempt whose
\* text is the generic failure notice with the error's text (for a payload
\* {"code": c} it contains c); when that attempt succeeds the loop goes on
\* to the next cycle after the sleep.
\* ------------------------------------------------------------------------
FailedStep ==
    /\ cycle > 0
    /\ raised # <<>>
    /\ raised[1].at \in {"fetch", "validate", "format"}
    /\ raised[1].exc.kind # "IndexError"

C8_FailureReportedLoopContinues ==
    (FailedStep /\ CycleEnding) =>
        /\ Len(sent) = 1
        /\ sent[1].text = <<GenericPrefix>> \o raised[1].exc.text
        /\ (Fetched /\ HasKey(response, "code")) =>
              Str(response.d["code"]) \in Range(sent[1].text)
        /\ sent[1].ok => pc # "terminated"

\* ------------------------------------------------------------------------
\* C9 -- for a mapping payload without `code` and without `homeworks`,
\* check_response fails with ResponseContentError carrying the
\* missing-homeworks-key message, and with no other error kind.
\* ------------------------------------------------------------------------
C9_MissingHomeworksIsContentError ==
    (Validated /\ IsMapping(response) /\ ~HasKey(response, "code")
               /\ ~HasKey(response, "homeworks")) =>
        RaisedAt("validate") =
            {Exc("ResponseContentError",
                 <<" V otvete API domashki otsutstvuet klyuch _homeworks">>)}

\* ------------------------------------------------------------------------
\* C10 -- for a mapping payload with a `code` key, check_response fails with
\* ServiceError carrying that code, whatever else the payload holds (a
\* non-empty `homeworks` list included); it never returns a record.
\* ------------------------------------------------------------------------
CodeText(code) ==
    CASE code = S("not_authenticated") -> <<"not_authenticated">>
      [] code = N(404) -> <<"404">>

C10_CodeIsServiceError ==
    (Validated /\ HasKey(response, "code")) =>
        /\ RaisedAt("validate") = {Exc("ServiceError", CodeText(response.d["code"]))}
        /\ pc \notin {"format", "notify"}

\* a rejection payload that also carries a non-empty homeworks list
C10_Witness ==
    /\ pc = "except"
    /\ error = Exc("ServiceError", <<"not_authenticated">>)
    /\ HasKey(response, "code")
    /\ HasKey(response, "homeworks")
    /\ response.d["homeworks"] = L(<<D([homework_name |-> S("hw1"),
                                        status |-> S("approved")])>>)

\* ------------------------------------------------------------------------
\* C11 -- for a mapping payload without `code` whose `homeworks` is a
\* non-empty list, check_response returns exactly the first element,
\* unchanged, whatever its shape and whatever follows it.
\* ------------------------------------------------------------------------
NonEmptyHomeworks(v) ==
    /\ IsMapping(v)
    /\ ~HasKey(v, "code")
    /\ HasKey(v, "homeworks")
    /\ v.d["homeworks"].t = "list"
    /\ Len(v.d["homeworks"].l) > 0

C11_FirstElementReturned ==
    (Validated /\ NonEmptyHomeworks(response)) =>
        /\ RaisedAt("validate") = {}
        /\ homework = Head(response.d["homeworks"].l)

\* the first element is not even a mapping, and it is returned as it is
C11_Witness ==
    /\ pc = "format"
    /\ HasKey(response, "homeworks")
    /\ response.d["homeworks"] = L(<<S("x")>>)
    /\ homework = S("x")

\* ------------------------------------------------------------------------
\* C12 -- for a mapping payload without `code` whose `homeworks` is the
\* empty list, check_response fails with IndexError (the kind the loop
\* treats as "no change") and with no other kind.
\* ------------------------------------------------------------------------
C12_EmptyListIsIndexError ==
    (Validated /\ EmptyHomeworks(response)) =>
        /\ RaisedAt("validate") # {}
        /\ \A e \in RaisedAt("validate") : e.kind = "IndexError"

\* ------------------------------------------------------------------------
\* C13 -- for a homework mapping whose `status` is absent or not one of
\* approved, reviewing, rejected, parse_status fails with NameError carrying
\* the offending value, also when the name is missing; it returns no string.
\* ------------------------------------------------------------------------
\* parse_status has been applied to the record returned by check_response
Parsed == Validated /\ RaisedAt("validate") = {} /\ pc # "format"
RecognizedStatus(record) ==
    /\ HasKey(record, "status")
    /\ record.d["status"] \in {S("approved"), S("reviewing"), S("rejected")}
\* str() of the status read by homework.get('status')
OffendingStatus(record) ==
    IF ~HasKey(record, "status") \/ record.d["status"] = None
    THEN "None" ELSE record.d["status"].s

C13_UnknownStatusIsNameError ==
    (Parsed /\ IsMapping(homework) /\ ~RecognizedStatus(homework)) =>
        RaisedAt("format") = {Exc("NameError", <<OffendingStatus(homework)>>)}

\* ------------------------------------------------------------------------
\* C14 -- for a homework mapping with a recognized status s and a non-null
\* name n, parse_status returns a non-empty string that contains n and the
\* verdict text of s, and the verdict text of no other status.
\* ------------------------------------------------------------------------
NamedRecord(record) ==
    HasKey(record, "homework_name") /\ record.d["homework_name"] # None
\* the verdict sentences of lines 88-90
VerdictText(status) ==
    CASE status = "approved"  -> "Rabota proverena: rev'yueru vsyo ponravilos'. Ura!"
      [] status = "reviewing" -> "Rabota vzyata na proverku rev'yuerom."
      [] status = "rejected"  -> "Rabota proverena: u rev'yuera est' zamechaniya."

C14_MessageHasNameAndVerdict ==
    (Parsed /\ IsMapping(homework) /\ RecognizedStatus(homework) /\ NamedRecord(homework)) =>
        /\ RaisedAt("format") = {}
        /\ pc = "notify" =>
              /\ Len(message) > 0
              /\ homework.d["homework_name"].s \in Range(message)
              /\ \A st \in {"approved", "reviewing", "rejected"} :
                    VerdictText(st) \in Range(message) <=> st = homework.d["status"].s

\* parse_status has returned the announcement of a rejected homework
C14_Witness ==
    /\ pc = "notify"
    /\ homework = D([homework_name |-> S("hw1"), status |-> S("rejected")])
    /\ "hw1" \in Range(message)
    /\ "Rabota proverena: u rev'yuera est' zamechaniya." \in Range(message)

\* ------------------------------------------------------------------------
\* C15 -- for a homework mapping with a recognized status whose name is
\* null or missing, parse_status fails with ResponseContentError; the
\* payload {"homeworks": [{"homework_name": null, "status": "approved"}]}
\* passes check_response and then fails so in parse_status.
\* ------------------------------------------------------------------------
NamelessPayload ==
    D([homeworks |-> L(<<D([homework_name |-> None, status |-> S("approved")])>>)])
MissingNameError ==
    Exc("ResponseContentError",
        <<"V otvete API domashki otsutsvuet klyuch _homework_name_">>)

C15_MissingNameIsContentError ==
    /\ (Parsed /\ IsMapping(homework) /\ RecognizedStatus(homework)
               /\ ~NamedRecord(homework)) =>
          RaisedAt("format") = {MissingNameError}
    /\ (Validated /\ response = NamelessPayload) =>
          /\ RaisedAt("validate") = {}
          /\ homework = D([homework_name |-> None, status |-> S("approved")])
          /\ pc # "format" => RaisedAt("format") = {MissingNameError}

\* scenario 4 of the specification, caught at the loop boundary
C15_Witness ==
    /\ response = NamelessPayload
    /\ pc = "except"
    /\ error = MissingNameError
    /\ RaisedAt("validate") = {}

\* ------------------------------------------------------------------------
\* C16 -- for a mapping payload without `code` whose `homeworks` key is
\* present with a value that is not a sequence (null, a number, a string, a
\* mapping), check_response fails with a data-type error and returns nothing.
\* ------------------------------------------------------------------------
NonSequenceHomeworks(v) ==
    /\ IsMapping(v)
    /\ ~HasKey(v, "code")
    /\ HasKey(v, "homeworks")
    /\ v.d["homeworks"].t # "list"

C16_NonSequenceIsDataTypeError ==
    (Validated /\ NonSequenceHomeworks(response)) =>
        /\ RaisedAt("validate") # {}
        /\ \A e \in RaisedAt("validate") : e.kind \in {"DataTypeError", "TypeError"}

\* ------------------------------------------------------------------------
\* C17 -- get_api_answer signals each class of fetch failure with its own
\* error kind: a connectivity failure as NetworkError, a status other than
\* 200 as EndpointError, a 200 response that is not JSON as
\* ResponseFormatError; it returns the decoded body only when none occurs.
\* ------------------------------------------------------------------------
FetchErrorKinds == {e.kind : e \in RaisedAt("fetch")}
\* the kinds taken as "the network error": the module's class of that name
\* and the class raised at line 115
ConnectivityKinds == {"NetworkError", "TelegramError"}

C17_FetchFailureKinds ==
    (cycle > 0 /\ pc # "fetch") =>
        /\ last_reply.kind = "RequestException" =>
              /\ Cardinality(FetchErrorKinds) = 1
              /\ FetchErrorKinds \subseteq ConnectivityKinds
        /\ last_reply.kind = "status" => FetchErrorKinds = {"EndpointError"}
        /\ last_reply.kind = "not_json" => FetchErrorKinds = {"ResponseFormatError"}
        /\ last_reply.kind = "json" => FetchErrorKinds = {} /\ response = last_reply.body

\* ------------------------------------------------------------------------
\* C18 -- the cursor changes only in a cycle in which all four steps
\* succeed: once get_api_answer, check_response, parse_status or
\* send_message has raised in a cycle (the empty-list outcome included),
\* the cursor equals its value at the start of the cycle, also when the
\* payload carried a `current_date`.
\* ------------------------------------------------------------------------
C18_CursorKeptOnFailure ==
    (cycle > 0 /\ raised # <<>>) => current_timestamp = cursor0

\* the message of a payload with current_date 1000 was not delivered
C18_Witness ==
    /\ pc = "terminated"
    /\ raised # <<>>
    /\ raised[1].at = "notify"
    /\ HasKey(response, "current_date")
    /\ response.d["current_date"] = N(1000)
    /\ cursor0 = N(StartTime)
    /\ current_timestamp = N(StartTime)

\* ------------------------------------------------------------------------
\* C19 -- every cycle calls get_api_answer once and makes at least one
\* send_message call; each send_message call comes after the fetch of its
\* cycle and before the sleep of its cycle; no cycle is silent.
\* ------------------------------------------------------------------------
C19_CycleNotifies ==
    /\ [](/\ CycleEnding => Len(sent) >= 1
          /\ cycle = 0 => sent = <<>>
          /\ CycleEnded => clock = StartTime + RETRY_PERIOD * cycle)
    /\ [][/\ sent' # sent /\ sent' # <<>> =>
                /\ cycle > 0 /\ cycle' = cycle
                /\ sleeps = 0 /\ sleeps' = 0
                /\ Len(sent') = Len(sent) + 1
          /\ cycle' # cycle =>
                /\ cycle' = cycle + 1
                /\ cycle > 0 => (sleeps = 1 /\ Len(sent) >= 1)
                /\ sent' = <<>>]_vars

\* the benign empty-list path: one delivered status-unchanged message
C19_Witness ==
    /\ CycleEnded
    /\ RaisedAt("validate") # {}
    /\ sent = <<[text |-> StatusNotChanged, ok |-> TRUE]>>
    /\ sleeps = 1

\* ------------------------------------------------------------------------
\* C20 -- every request carries a non-null from_date: the cursor given to
\* get_api_answer when it is neither None nor 0, the clock reading at the
\* time of the request otherwise.
\* ------------------------------------------------------------------------
C20_FromDateNeverNull ==
    cycle > 0 =>
        /\ from_date # None
        /\ from_date.t = "int"
        /\ cursor0 \in {None, N(0)} => from_date = N(clock)
        /\ cursor0 \notin {None, N(0)} => from_date = cursor0

\* a None cursor: the request asks from the time of the request
C20_Witness ==
    /\ cycle = 1
    /\ cursor0 = None
    /\ from_date = N(clock)
    /\ last_reply.kind = "json"

====
